---- MODULE Spec2Model ----
(***************************************************************************)
(* Model of junos_push: JunosPushTool.execute (core.py), the preflight     *)
(* pipeline, the per-device push state machine, ConfigValidator            *)
(* (validators.py) and the exit status of cli.main.                        *)
(*                                                                         *)
(* Text is modelled as a sequence of one-character strings, so that        *)
(* cleaning, validation and the rollback conversion are computed the way   *)
(* the Python code computes them.                                          *)
(***************************************************************************)
EXTENDS Integers, Sequences, FiniteSets, TLC

(***************************************************************************)
(* Bounds of the model.                                                    *)
(***************************************************************************)
\* Largest number of devices a group of config.ini resolves to.
MaxGroupSize == 3
MaxTextLen == 4
MaxBodyLen == 4
MaxApply == 2
MaxConfigLines == 2

(***************************************************************************)
(* Python str primitives.                                                  *)
(***************************************************************************)
\* str.isspace for the characters that occur in the modelled documents.
IsSpace(c) == c \in {" ", "\t", "\n"}

\* str.lower on one character.
LowerChar(c) ==
    CASE c = "S" -> "s"
      [] c = "E" -> "e"
      [] c = "T" -> "t"
      [] OTHER -> c

\* str.lower
Lower(s) == [k \in 1..Len(s) |-> LowerChar(s[k])]

\* str.startswith
StartsWith(s, p) == Len(s) >= Len(p) /\ SubSeq(s, 1, Len(p)) = p

\* s[n:]
DropFirst(s, n) == IF n >= Len(s) THEN <<>> ELSE SubSeq(s, n + 1, Len(s))

\* str.count for a single character
Count(s, c) == Cardinality({k \in 1..Len(s) : s[k] = c})

\* str.strip
Strip(s) ==
    LET keep == {k \in 1..Len(s) : ~IsSpace(s[k])}
    IN  IF keep = {} THEN <<>>
        ELSE LET lo == CHOOSE k \in keep : \A m \in keep : k <= m
                 hi == CHOOSE k \in keep : \A m \in keep : k >= m
             IN  SubSeq(s, lo, hi)

\* str.split(c): the segments between the occurrences of c (count(c)+1 of them)
SplitOn(s, c) ==
    LET RECURSIVE go(_, _, _)
        go(k, cur, acc) ==
            IF k > Len(s) THEN Append(acc, cur)
            ELSE IF s[k] = c THEN go(k + 1, <<>>, Append(acc, cur))
            ELSE go(k + 1, Append(cur, s[k]), acc)
    IN  go(1, <<>>, <<>>)

\* str.split(): the maximal runs of non-whitespace characters
SplitWS(s) ==
    LET RECURSIVE go(_, _, _)
        go(k, cur, acc) ==
            IF k > Len(s) THEN (IF cur = <<>> THEN acc ELSE Append(acc, cur))
            ELSE IF IsSpace(s[k])
                 THEN go(k + 1, <<>>, IF cur = <<>> THEN acc ELSE Append(acc, cur))
                 ELSE go(k + 1, Append(cur, s[k]), acc)
    IN  go(1, <<>>, <<>>)

\* sep.join(parts)
Join(parts, sep) ==
    LET RECURSIVE go(_, _)
        go(k, acc) ==
            IF k > Len(parts) THEN acc
            ELSE go(k + 1, IF k = 1 THEN parts[k] ELSE acc \o sep \o parts[k])
    IN  go(1, <<>>)

\* The elements of a sequence, as a set.
Range(s) == {s[k] : k \in 1..Len(s)}

(***************************************************************************)
(* Words of the configuration language.                                    *)
(***************************************************************************)
W_set == <<"s", "e", "t">>
W_delete == <<"d", "e", "l", "e", "t", "e">>
W_deactivate == <<"d", "e", "a", "c", "t", "i", "v", "a", "t", "e">>
W_activate == <<"a", "c", "t", "i", "v", "a", "t", "e">>
W_protect == <<"p", "r", "o", "t", "e", "c", "t">>
W_unprotect == <<"u", "n", "p", "r", "o", "t", "e", "c", "t">>
SP == <<" ">>
NL == <<"\n">>

\* ConfigValidator.valid_set_commands
valid_set_commands == {W_set, W_delete, W_deactivate, W_activate, W_protect, W_unprotect}

(***************************************************************************)
(* ConfigValidator                                                         *)
(***************************************************************************)
\* Variant: the text left of an inline comment is kept as it is, without
\* trimming it and normalizing its whitespace.
CleanLine_untrimmed(raw) ==
    LET line == Strip(raw)
    IN  IF line = <<>> THEN <<>>
        ELSE IF StartsWith(line, <<"#">>) THEN <<>>
        ELSE IF Count(line, "#") > 0
             THEN << SplitOn(line, "#")[1] >>
             ELSE << Join(SplitWS(line), SP) >>

\* One line of _clean_config_content: <<>> when the line is dropped,
\* otherwise <<cleaned line>>.
CleanLine(raw) ==
    LET line == Strip(raw)
    IN  IF line = <<>> THEN <<>>
        ELSE IF StartsWith(line, <<"#">>) THEN <<>>
        ELSE LET cut == IF Count(line, "#") > 0
                        THEN Strip(SplitOn(line, "#")[1])
                        ELSE line
             IN  IF cut = <<>> THEN <<>>
                 ELSE << Join(SplitWS(cut), SP) >>

\* ConfigValidator._clean_config_content
clean_config_content(content) ==
    LET lines == SplitOn(content, "\n")
        RECURSIVE go(_, _)
        go(k, acc) ==
            IF k > Len(lines) THEN acc ELSE go(k + 1, acc \o CleanLine(lines[k]))
    IN  Join(go(1, <<>>), NL)

\* ConfigValidator._validate_set_command_syntax: the errors it appends for
\* one set line (at most one, it returns at the first).
validate_set_command_syntax(line, line_num) ==
    LET parts == SplitWS(line)
    IN  IF Len(parts) < 3 THEN << <<line_num, "too_short">> >>
        ELSE IF Count(line, "\"") % 2 # 0 THEN << <<line_num, "quotes">> >>
        ELSE IF Count(line, "[") # Count(line, "]") THEN << <<line_num, "brackets">> >>
        ELSE <<>>

\* The errors _validate_config_syntax collects for one line.
LineErrors(line, line_num) ==
    IF Strip(line) = <<>> THEN <<>>
    ELSE LET first_word == Lower(SplitWS(line)[1])
         IN  IF first_word \notin valid_set_commands
             THEN << <<line_num, "invalid_command">> >>
             ELSE IF first_word = W_set
                  THEN IF Len(SplitWS(line)) < 2
                       THEN << <<line_num, "incomplete">> >>
                       ELSE validate_set_command_syntax(line, line_num)
                  ELSE <<>>

\* ConfigValidator._validate_config_syntax: the list `errors`; the method
\* raises ValueError exactly when it is not empty.
validate_config_syntax(content) ==
    LET lines == SplitOn(content, "\n")
        RECURSIVE go(_, _)
        go(k, acc) ==
            IF k > Len(lines) THEN acc ELSE go(k + 1, acc \o LineErrors(lines[k], k))
    IN  go(1, <<>>)

\* ConfigValidator.validate_and_clean_config on the content of an existing,
\* readable file: [ok |-> FALSE] when it raises ValueError, otherwise the
\* cleaned content it returns.
validate_and_clean_config(content) ==
    IF Strip(content) = <<>> THEN [ok |-> FALSE, text |-> <<>>]
    ELSE LET cleaned == clean_config_content(content)
         IN  IF validate_config_syntax(cleaned) # <<>>
             THEN [ok |-> FALSE, text |-> <<>>]
             ELSE [ok |-> TRUE, text |-> cleaned]

(***************************************************************************)
(* JunosPushTool._convert_set_to_delete                                    *)
(***************************************************************************)
\* Variant: a line of another verb is kept as it is.
ConvertLine_keep(raw) ==
    LET line == Strip(raw)
    IN  IF line = <<>> \/ StartsWith(line, <<"#">>) THEN <<>>
        ELSE IF StartsWith(Lower(line), W_set \o SP)
             THEN << W_delete \o SP \o DropFirst(line, 4) >>
        ELSE IF StartsWith(Lower(line), W_delete \o SP)
             THEN << W_set \o SP \o DropFirst(line, 7) >>
        ELSE << line >>

\* Variant: a delete line is not turned back into a set line.
ConvertLine_oneway(raw) ==
    LET line == Strip(raw)
    IN  IF line = <<>> \/ StartsWith(line, <<"#">>) THEN <<>>
        ELSE IF StartsWith(Lower(line), W_set \o SP)
             THEN << W_delete \o SP \o DropFirst(line, 4) >>
        ELSE <<>>

\* One line of the conversion: <<>> when the line yields nothing.
ConvertLine(raw) ==
    LET line == Strip(raw)
    IN  IF line = <<>> \/ StartsWith(line, <<"#">>) THEN <<>>
        ELSE IF StartsWith(Lower(line), W_set \o SP)
             THEN << W_delete \o SP \o DropFirst(line, 4) >>
        ELSE IF StartsWith(Lower(line), W_delete \o SP)
             THEN << W_set \o SP \o DropFirst(line, 7) >>
        ELSE <<>>

convert_set_to_delete(config_content) ==
    LET lines == SplitOn(Strip(config_content), "\n")
        RECURSIVE go(_, _)
        go(k, acc) ==
            IF k > Len(lines) THEN acc ELSE go(k + 1, acc \o ConvertLine(lines[k]))
    IN  Join(go(1, <<>>), NL)

\* One line of the conversion: << line >> when the warning of line 758 is
\* printed for it, <<>> otherwise.
SkippedLine(raw) ==
    LET line == Strip(raw)
    IN  IF line = <<>> \/ StartsWith(line, <<"#">>) THEN <<>>
        ELSE IF StartsWith(Lower(line), W_set \o SP) THEN <<>>
        ELSE IF StartsWith(Lower(line), W_delete \o SP) THEN <<>>
        ELSE << line >>

\* The lines _convert_set_to_delete reports as skipped, in order.
convert_skipped(config_content) ==
    LET lines == SplitOn(Strip(config_content), "\n")
        RECURSIVE go(_, _)
        go(k, acc) ==
            IF k > Len(lines) THEN acc ELSE go(k + 1, acc \o SkippedLine(lines[k]))
    IN  go(1, <<>>)

(***************************************************************************)
(* The similarity ratio of _find_similar_lines_advanced (lines 434-440):   *)
(* Levenshtein.ratio when the module can be imported, otherwise            *)
(* difflib.SequenceMatcher(None, a, b).ratio().  Both are 2*M / T with T   *)
(* the sum of the two lengths; a ratio is kept as the pair <<2*M, T>>.     *)
(***************************************************************************)
Max2(x, y) == IF x >= y THEN x ELSE y

\* Length of a longest common subsequence of a and b, row by row.
\* Levenshtein.ratio counts a substitution as 2, so its distance is
\* T - 2*LCS and its ratio 2*LCS / T.
LCSLen(a, b) ==
    LET RECURSIVE cells(_, _, _, _)
        \* cur[j+1] is the value for the prefixes a[1..i], b[1..j]; the
        \* tests on Len have each row evaluated before the next one starts.
        cells(i, j, prev, cur) ==
            IF j > Len(b) THEN cur
            ELSE LET nxt == Append(cur, IF a[i] = b[j] THEN prev[j] + 1
                                        ELSE Max2(prev[j + 1], cur[j]))
                 IN  IF Len(nxt) = j + 1 THEN cells(i, j + 1, prev, nxt) ELSE nxt
        RECURSIVE rows(_, _)
        rows(i, prev) ==
            IF i > Len(a) THEN prev[Len(b) + 1]
            ELSE LET row == cells(i, 1, prev, <<0>>)
                 IN  IF Len(row) = Len(b) + 1 THEN rows(i + 1, row) ELSE 0
    IN  rows(1, [j \in 1..(Len(b) + 1) |-> 0])

\* Length of the common run of a and b that starts at a[i], b[j] and stays
\* below ahi, bhi.
RECURSIVE RunLen(_, _, _, _, _, _)
RunLen(a, b, i, j, ahi, bhi) ==
    IF i < ahi /\ j < bhi /\ a[i] = b[j]
    THEN 1 + RunLen(a, b, i + 1, j + 1, ahi, bhi)
    ELSE 0

\* SequenceMatcher.find_longest_match(alo, ahi, blo, bhi) without junk: a
\* longest matching block, the one that starts earliest in a and, among
\* those, earliest in b.  <<i, j, k>>, with k = 0 when nothing matches.
find_longest_match(a, b, alo, ahi, blo, bhi) ==
    LET len(i, j) == RunLen(a, b, i, j, ahi, bhi)
        starts == (alo..(ahi - 1)) \X (blo..(bhi - 1))
        sizes == {len(p[1], p[2]) : p \in starts} \cup {0}
        k == CHOOSE x \in sizes : \A y \in sizes : x >= y
    IN  IF k = 0 THEN <<alo, blo, 0>>
        ELSE LET best == {p \in starts : len(p[1], p[2]) = k}
                 i == CHOOSE x \in {p[1] : p \in best} :
                          \A p \in best : x <= p[1]
                 j == CHOOSE x \in {p[2] : p \in {q \in best : q[1] = i}} :
                          \A p \in {q \in best : q[1] = i} : x <= p[2]
             IN  <<i, j, k>>

\* The sum of the sizes of SequenceMatcher.get_matching_blocks(): the longest
\* block, then the same to its left and to its right.
RECURSIVE MatchedSize(_, _, _, _, _, _)
MatchedSize(a, b, alo, ahi, blo, bhi) ==
    LET m == find_longest_match(a, b, alo, ahi, blo, bhi)
    IN  IF m[3] = 0 THEN 0
        ELSE m[3] + MatchedSize(a, b, alo, m[1], blo, m[2])
                  + MatchedSize(a, b, m[1] + m[3], ahi, m[2] + m[3], bhi)

\* The two ratio functions the import of lines 434-440 can bind.
RatioImpls == {"Levenshtein", "difflib"}

\* ratio(a, b) as <<numerator, denominator>>; two empty strings give 1.0.
ratio(impl, a, b) ==
    IF Len(a) + Len(b) = 0 THEN <<1, 1>>
    ELSE IF impl = "Levenshtein" THEN <<2 * LCSLen(a, b), Len(a) + Len(b)>>
    ELSE <<2 * MatchedSize(a, b, 1, Len(a) + 1, 1, Len(b) + 1), Len(a) + Len(b)>>

(***************************************************************************)
(* Inputs of a run.                                                        *)
(***************************************************************************)
\* Device endpoints that config.ini can name.
Endpoints == {"d1", "d2"}

\* What device_groups holds for the group name given on the command line:
\* found = FALSE when the name is no section of config.ini, otherwise the
\* values of the section, in file order.  Up to renaming of the endpoints,
\* the first value is d1.
GroupChoices ==
    {[found |-> FALSE, devices |-> <<>>]} \cup
    {[found |-> TRUE, devices |-> d] :
        d \in {s \in UNION {[1..n -> Endpoints] : n \in 0..MaxGroupSize} :
                  Len(s) > 0 => s[1] = "d1"}}

\* click.Choice of --operation
Operations == {"check", "commit", "commit-confirmed", "rollback", "compare"}

\* Configuration lines
L_ab == W_set \o SP \o <<"a">> \o SP \o <<"b">>
L_ac == W_set \o SP \o <<"a">> \o SP \o <<"c">>
L_ad == W_set \o SP \o <<"a">> \o SP \o <<"d">>
L_zz == W_set \o SP \o <<"z">> \o SP \o <<"z">>
L_del_ac == W_delete \o SP \o <<"a">> \o SP \o <<"c">>
L_act_ad == W_activate \o SP \o <<"a">> \o SP \o <<"d">>
NtpServer ==
    <<"s", "y", "s", "t", "e", "m", " ", "n", "t", "p", " ",
      "s", "e", "r", "v", "e", "r", " ", "1", ".", "1", ".", "1", ".", "1">>
L_ntp == W_set \o SP \o NtpServer

\* The configuration files a run can be given (--config-file), by name.
ConfigFiles == {"sets.conf", "bad.conf", "other.conf", "blank.conf", "mixed.conf"}

\* The raw content of each file.
FileContent(f) ==
    CASE f = "sets.conf" ->
            L_ab \o NL \o <<"#", " ", "n">> \o NL \o NL \o
            W_set \o SP \o SP \o <<"a">> \o <<"\t">> \o <<"c">> \o SP \o <<"#", "x">> \o NL \o
            SP \o L_ad \o NL
      [] f = "bad.conf" ->
            W_set \o SP \o <<"a">> \o NL \o <<"f", "o", "o">> \o SP \o <<"b">> \o NL \o L_ab
      [] f = "other.conf" ->
            W_activate \o SP \o <<"a">> \o SP \o <<"b">> \o NL
      [] f = "blank.conf" -> SP \o NL
      [] f = "mixed.conf" ->
            L_ab \o NL \o L_del_ac \o NL \o L_act_ad \o NL \o L_ntp \o NL

\* What a device can answer to get_config for its current configuration
\* (overlap analysis): a set of lines.
CurrentConfigs == {{}, {L_zz}, {L_ab, L_zz}, {L_ab, L_ac, L_ad}}

\* What a device can hold in its candidate and committed databases when the
\* pending check reads them.
DeviceDatabases ==
    { [candidate |-> {L_zz}, committed |-> {L_zz}],
      [candidate |-> {L_zz, L_ab}, committed |-> {L_zz}],
      [candidate |-> {L_ab}, committed |-> {}] }

(***************************************************************************)
(* State.                                                                  *)
(***************************************************************************)
VARIABLES
    group,            \* input: the group's resolution in device_groups
    config_file,      \* input: name of the configuration file
    operation,        \* input
    dry_run,          \* input
    parallel,         \* input
    backup,           \* input
    pc,               \* position of execute / main
    devices,          \* execute: the list _validate_group returned
    config_content,   \* execute: the cleaned document
    st,               \* state of the per-device task of the current preflight stage
    fut,              \* value returned by the per-device task of the current stage
    conn_results,     \* _test_connectivity: results
    config_status,    \* execute: config_status (overlap analysis), device -> record
    should_proceed,   \* execute: should_proceed
    pending_devices,  \* _validate_device_state: pending_devices
    ppc,              \* position of each _push_config_to_device call
    locked,           \* whether the call holds its configuration edit scope
    calls,            \* session calls each push has issued, in order
    loaded,           \* text each push handed to cu.load
    skipped,          \* lines each push's rollback conversion warned it skips
    confirm,          \* confirmation window of each push's commit, in minutes (0: none)
    pret,             \* value each push is returning
    results,          \* _execute_parallel/_execute_sequential: results
    cmp_results,      \* _compare_device_configs: results
    cmp_errors,       \* _compare_device_configs: the keys of errors
    contacts,         \* device contacts of the preflight stages and compare
    drift_present,    \* history: a device had candidate - committed # {} when checked
    pending_unknown,  \* history: a device's pending state could not be read
    fully_present,    \* history: the overlap analysis found every proposed line on every device
    ret,              \* value execute returned
    exit_code,        \* status main exits with
    txt,              \* a text and the results of the functions applied to it, in order
    applied,          \* the functions applied to the text, in order
    report,           \* what validate_and_clean_config made of the text
    ratio_impl,       \* the ratio function the import of lines 434-440 bound
    config1,          \* _compare_device_configs: config1
    config2,          \* _compare_device_configs: config2
    common_lines,     \* _compare_device_configs: common_lines
    list1,            \* _find_similar_lines_advanced: list1
    list2,            \* _find_similar_lines_advanced: list2
    idx,              \* position of the loop of line 451 in list1
    similar_pairs,    \* _find_similar_lines_advanced: similar_pairs
    matched_lines1,   \* _find_similar_lines_advanced: matched_lines1
    matched_lines2,   \* _find_similar_lines_advanced: matched_lines2
    truly_unique,     \* the two truly-unique sets the pass returned
    dpc               \* position of the comparison

inputs == <<group, config_file, operation, dry_run, parallel, backup>>
stage == <<st, fut, conn_results, config_status, should_proceed, pending_devices>>
push == <<ppc, locked, calls, loaded, skipped, confirm, pret, results>>
compare == <<cmp_results, cmp_errors>>
history == <<contacts, drift_present, pending_unknown, fully_present>>
pure == <<txt, applied, report>>
diff == <<ratio_impl, config1, config2, common_lines, list1, list2, idx,
          similar_pairs, matched_lines1, matched_lines2, truly_unique, dpc>>
aside == <<pure, diff>>
program == <<inputs, pc, devices, config_content, stage, push, compare, history, ret, exit_code>>
vars == <<program, pure, diff>>

Tasks == 1..2

\* dict[key] = value
Put(f, k, v) == [x \in DOMAIN f \cup {k} |-> IF x = k THEN v ELSE f[x]]

\* The empty dict
EmptyDict == [x \in {} |-> TRUE]

NoTasks == [i \in Tasks |-> "none"]
Submitted == [i \in Tasks |-> "submitted"]
NoFut == [i \in Tasks |-> FALSE]

\* The state of a tool that has not run yet.
Fresh ==
    /\ pc = "start"
    /\ devices = <<>>
    /\ config_content = <<>>
    /\ st = NoTasks
    /\ fut = NoFut
    /\ conn_results = EmptyDict
    /\ config_status = EmptyDict
    /\ should_proceed = TRUE
    /\ pending_devices = <<>>
    /\ ppc = [i \in Tasks |-> "idle"]
    /\ locked = [i \in Tasks |-> FALSE]
    /\ calls = [i \in Tasks |-> <<>>]
    /\ loaded = [i \in Tasks |-> <<>>]
    /\ skipped = [i \in Tasks |-> <<>>]
    /\ confirm = [i \in Tasks |-> 0]
    /\ pret = [i \in Tasks |-> <<FALSE, "none">>]
    /\ results = EmptyDict
    /\ cmp_results = EmptyDict
    /\ cmp_errors = {}
    /\ contacts = {}
    /\ drift_present = FALSE
    /\ pending_unknown = FALSE
    /\ fully_present = FALSE
    /\ ret = "none"
    /\ exit_code = -1

\* No text is being processed.
NoText ==
    /\ txt = <<>>
    /\ applied = <<>>
    /\ report = <<>>

\* No comparison is being computed.
NoDiff ==
    /\ ratio_impl = "Levenshtein"
    /\ config1 = {}
    /\ config2 = {}
    /\ common_lines = {}
    /\ list1 = <<>>
    /\ list2 = <<>>
    /\ idx = 0
    /\ similar_pairs = <<>>
    /\ matched_lines1 = {}
    /\ matched_lines2 = {}
    /\ truly_unique = <<{}, {}>>
    /\ dpc = "idle"

Init ==
    /\ group \in GroupChoices
    /\ config_file \in ConfigFiles
    /\ operation \in Operations
    /\ dry_run \in BOOLEAN
    /\ parallel \in BOOLEAN
    /\ backup \in BOOLEAN
    /\ Fresh
    /\ NoText
    /\ NoDiff

\* execute returns v (also from its except clause, which returns False).
Return(v) ==
    /\ ret' = v
    /\ pc' = "returned"

(***************************************************************************)
(* execute: group and document validation.                                 *)
(***************************************************************************)
\* Variant: a group of more than 2 devices is accepted.
GroupOk_atleast(g) == g.found /\ Len(g.devices) >= 2

\* _validate_group does not raise.
GroupOk(g) == g.found /\ Len(g.devices) = 2

\* execute, lines 1026-1043: _validate_group, then the compare dispatch.
ValidateGroup ==
    /\ pc = "start"
    /\ IF ~GroupOk(group)
       THEN /\ Return(FALSE)
            /\ UNCHANGED <<devices, st>>
       ELSE /\ devices' = group.devices
            /\ IF operation = "compare"
               THEN IF dry_run
                    THEN Return(TRUE) /\ UNCHANGED st
                    ELSE pc' = "connectivity" /\ st' = Submitted /\ UNCHANGED ret
               ELSE pc' = "validate_config" /\ UNCHANGED <<ret, st>>
    /\ UNCHANGED <<aside, inputs, config_content, fut, conn_results, config_status,
                   should_proceed, pending_devices, push, compare, history, exit_code>>

\* Variant: the outcome of the validation is not acted upon.
ValidateConfig_unchecked ==
    /\ pc = "validate_config"
    /\ LET r == validate_and_clean_config(FileContent(config_file))
       IN  /\ config_content' = r.text
           /\ IF dry_run
              THEN Return(TRUE) /\ UNCHANGED st
              ELSE pc' = "connectivity" /\ st' = Submitted /\ UNCHANGED ret
    /\ UNCHANGED <<aside, inputs, devices, fut, conn_results, config_status,
                   should_proceed, pending_devices, push, compare, history, exit_code>>

\* Variant: the dry-run flag is not consulted after the validation.
ValidateConfig_nodry ==
    /\ pc = "validate_config"
    /\ LET r == validate_and_clean_config(FileContent(config_file))
       IN  IF ~r.ok
           THEN Return(FALSE) /\ UNCHANGED <<config_content, st>>
           ELSE /\ config_content' = r.text
                /\ pc' = "connectivity" /\ st' = Submitted /\ UNCHANGED ret
    /\ UNCHANGED <<aside, inputs, devices, fut, conn_results, config_status,
                   should_proceed, pending_devices, push, compare, history, exit_code>>

\* execute, lines 1045-1056: validate_and_clean_config, then the dry-run exit.
ValidateConfig ==
    /\ pc = "validate_config"
    /\ LET r == validate_and_clean_config(FileContent(config_file))
       IN  IF ~r.ok
           THEN Return(FALSE) /\ UNCHANGED <<config_content, st>>
           ELSE /\ config_content' = r.text
                /\ IF dry_run
                   THEN Return(TRUE) /\ UNCHANGED st
                   ELSE pc' = "connectivity" /\ st' = Submitted /\ UNCHANGED ret
    /\ UNCHANGED <<aside, inputs, devices, fut, conn_results, config_status,
                   should_proceed, pending_devices, push, compare, history, exit_code>>

(***************************************************************************)
(* _test_connectivity                                                      *)
(***************************************************************************)
\* test_device / ConnectionTester.test_connection on devices[i]: the TCP probe
\* and the session handshake succeed or not.
TestConnection(i) ==
    /\ pc = "connectivity"
    /\ st[i] = "submitted"
    /\ \E ok \in BOOLEAN : fut' = [fut EXCEPT ![i] = ok]
    /\ st' = [st EXCEPT ![i] = "done"]
    /\ contacts' = contacts \cup {<<devices[i], "probe">>}
    /\ UNCHANGED <<aside, inputs, pc, devices, config_content, conn_results, config_status,
                   should_proceed, pending_devices, push, compare, drift_present,
                   pending_unknown, fully_present, ret, exit_code>>

\* as_completed loop, lines 124-126
CollectConnectivity(i) ==
    /\ pc = "connectivity"
    /\ st[i] = "done"
    /\ conn_results' = Put(conn_results, devices[i], fut[i])
    /\ st' = [st EXCEPT ![i] = "collected"]
    /\ UNCHANGED <<aside, inputs, pc, devices, config_content, fut, config_status,
                   should_proceed, pending_devices, push, compare, history, ret, exit_code>>

\* Variant: one reachable device is enough.
AllReachable_any(devs, res) == \E k \in 1..Len(devs) : res[devs[k]]

\* all_reachable, lines 134-141
AllReachable(devs, res) == \A k \in 1..Len(devs) : res[devs[k]]

\* Variant: the comparison goes through the stages of a push.
AfterConnectivity_push(op) == "overlap"

\* What execute does once every device is reachable: compare returns
\* _compare_device_configs (line 1043), the other operations go on to the
\* overlap analysis (line 1064).
AfterConnectivity(op) == IF op = "compare" THEN "compare" ELSE "overlap"

\* Variant: the next stage starts as soon as one probe has been collected
\* and found its device reachable.
FinishConnectivity_early ==
    /\ pc = "connectivity"
    /\ \E i \in Tasks : st[i] = "collected"
    /\ IF \E d \in DOMAIN conn_results : ~conn_results[d]
       THEN Return(FALSE) /\ st' = NoTasks
       ELSE /\ pc' = AfterConnectivity(operation)
            /\ st' = Submitted
            /\ UNCHANGED ret
    /\ fut' = NoFut
    /\ UNCHANGED <<aside, inputs, devices, config_content, conn_results, config_status,
                   should_proceed, pending_devices, push, compare, history, exit_code>>

\* Lines 134-150 and the caller's test (1039-1040, 1059-1060).
FinishConnectivity ==
    /\ pc = "connectivity"
    /\ \A i \in Tasks : st[i] = "collected"
    /\ IF ~AllReachable(devices, conn_results)
       THEN Return(FALSE) /\ st' = NoTasks
       ELSE /\ pc' = AfterConnectivity(operation)
            /\ st' = Submitted
            /\ UNCHANGED ret
    /\ fut' = NoFut
    /\ UNCHANGED <<aside, inputs, devices, config_content, conn_results, config_status,
                   should_proceed, pending_devices, push, compare, history, exit_code>>

(***************************************************************************)
(* Overlap analysis: _validate_configuration_status, _check_existing_config *)
(* and _evaluate_config_status.                                            *)
(***************************************************************************)
\* The set of the stripped, non-empty, non-comment lines of a text
\* (lines 823-837).
LineSet(text) ==
    LET lines == SplitOn(Strip(text), "\n")
    IN  {Strip(lines[k]) : k \in {m \in 1..Len(lines) :
            Strip(lines[m]) # <<>> /\ ~StartsWith(Strip(lines[m]), <<"#">>)}}

\* Variant: every proposed line is reported as new.
check_existing_config_all(ok, current_lines, content) ==
    LET proposed_lines == LineSet(content)
        existing_lines == IF ok THEN proposed_lines \cap current_lines ELSE {}
        new_lines == IF ok THEN proposed_lines ELSE {}
    IN  [has_existing |-> Cardinality(existing_lines) > 0,
         existing_lines |-> existing_lines,
         new_lines |-> new_lines,
         total_proposed |-> Cardinality(existing_lines) + Cardinality(new_lines),
         existing_count |-> Cardinality(existing_lines),
         new_count |-> Cardinality(new_lines)]

\* _check_existing_config with the record check_device_config builds from it
\* (lines 787-794); ok = FALSE is the except clause.
check_existing_config(ok, current_lines, content) ==
    LET proposed_lines == LineSet(content)
        existing_lines == IF ok THEN proposed_lines \cap current_lines ELSE {}
        new_lines == IF ok THEN proposed_lines \ current_lines ELSE {}
    IN  [has_existing |-> Cardinality(existing_lines) > 0,
         existing_lines |-> existing_lines,
         new_lines |-> new_lines,
         total_proposed |-> Cardinality(existing_lines) + Cardinality(new_lines),
         existing_count |-> Cardinality(existing_lines),
         new_count |-> Cardinality(new_lines)]

\* check_device_config on devices[i]
CheckExistingConfig(i) ==
    /\ pc = "overlap"
    /\ st[i] = "submitted"
    /\ \E ok \in BOOLEAN, current \in CurrentConfigs :
          fut' = [fut EXCEPT ![i] = check_existing_config(ok, current, config_content)]
    /\ st' = [st EXCEPT ![i] = "done"]
    /\ contacts' = contacts \cup {<<devices[i], "overlap_read">>}
    /\ UNCHANGED <<aside, inputs, pc, devices, config_content, conn_results, config_status,
                   should_proceed, pending_devices, push, compare, drift_present,
                   pending_unknown, fully_present, ret, exit_code>>

\* as_completed loop, lines 799-801
CollectConfigStatus(i) ==
    /\ pc = "overlap"
    /\ st[i] = "done"
    /\ config_status' = Put(config_status, devices[i], fut[i])
    /\ st' = [st EXCEPT ![i] = "collected"]
    /\ UNCHANGED <<aside, inputs, pc, devices, config_content, fut, conn_results,
                   should_proceed, pending_devices, push, compare, history, ret, exit_code>>

\* _validate_configuration_status returns (lines 803-806)
FinishConfigStatus ==
    /\ pc = "overlap"
    /\ \A i \in Tasks : st[i] = "collected"
    /\ pc' = "evaluate"
    /\ st' = NoTasks
    /\ fut' = NoFut
    /\ UNCHANGED <<aside, inputs, devices, config_content, conn_results, config_status,
                   should_proceed, pending_devices, push, compare, history, ret, exit_code>>

\* all_fully_present of _evaluate_config_status (lines 898-901)
AllFullyPresent(status) ==
    \A d \in DOMAIN status :
        status[d].existing_count = status[d].total_proposed
        /\ status[d].total_proposed > 0

\* Variant: a commit of a document that is already fully present is refused.
evaluate_config_status_strict(status, op) ==
    ~(AllFullyPresent(status) /\ op \in {"commit", "commit-confirmed"})

\* _evaluate_config_status
evaluate_config_status(status, op) ==
    LET all_fully_present ==
            \A d \in DOMAIN status :
                status[d].existing_count = status[d].total_proposed
                /\ status[d].total_proposed > 0
        any_existing_config == \E d \in DOMAIN status : status[d].has_existing
    IN  IF all_fully_present
        THEN IF op \in {"commit", "commit-confirmed"} THEN TRUE
             ELSE IF op = "check" THEN TRUE
             ELSE TRUE
        ELSE IF any_existing_config THEN TRUE
        ELSE TRUE

\* Where the execution stage starts each push: _execute_parallel submits one
\* task per device, _execute_sequential calls the first device's push.
StartPushes(par) == [i \in Tasks |-> IF par \/ i = 1 THEN "connect" ELSE "idle"]

\* execute, lines 1067-1072.  config_status is not read after line 1067 and
\* is dropped here.
EvaluateConfigStatus ==
    /\ pc = "evaluate"
    /\ should_proceed' = evaluate_config_status(config_status, operation)
    /\ fully_present' = AllFullyPresent(config_status)
    /\ config_status' = EmptyDict
    /\ IF ~should_proceed'
       THEN Return(FALSE) /\ UNCHANGED <<st, ppc>>
       ELSE IF operation \notin {"rollback", "compare"}
            THEN pc' = "pending" /\ st' = Submitted /\ UNCHANGED <<ret, ppc>>
            ELSE pc' = "execute" /\ ppc' = StartPushes(parallel) /\ UNCHANGED <<ret, st>>
    /\ UNCHANGED <<aside, inputs, devices, config_content, fut, conn_results,
                   pending_devices, locked, calls, loaded, skipped, confirm, pret, results,
                   compare, contacts, drift_present, pending_unknown, exit_code>>

(***************************************************************************)
(* Pending check: _validate_device_state and _check_pending_config.        *)
(***************************************************************************)
\* _check_pending_config: ok = FALSE is the except clause (the session or a
\* read failed); candidate and committed are the line lists read.
check_pending_config(ok, candidate, committed) ==
    IF ~ok THEN FALSE
    ELSE IF candidate # {} /\ committed # {}
         THEN candidate \ committed # {}
         ELSE FALSE

\* check_device on devices[i]
CheckPendingConfig(i) ==
    /\ pc = "pending"
    /\ st[i] = "submitted"
    /\ \E ok \in BOOLEAN, db \in DeviceDatabases :
          /\ fut' = [fut EXCEPT ![i] = check_pending_config(ok, db.candidate, db.committed)]
          /\ drift_present' = (drift_present \/ db.candidate \ db.committed # {})
          /\ pending_unknown' = (pending_unknown \/ ~ok)
    /\ st' = [st EXCEPT ![i] = "done"]
    /\ contacts' = contacts \cup {<<devices[i], "pending_read">>}
    /\ UNCHANGED <<aside, fully_present, inputs, pc, devices, config_content,
                   conn_results, config_status,
                   should_proceed, pending_devices, push, compare, ret, exit_code>>

\* as_completed loop, lines 203-206
CollectPending(i) ==
    /\ pc = "pending"
    /\ st[i] = "done"
    /\ pending_devices' = IF fut[i] THEN Append(pending_devices, devices[i])
                          ELSE pending_devices
    /\ st' = [st EXCEPT ![i] = "collected"]
    /\ UNCHANGED <<aside, inputs, pc, devices, config_content, fut, conn_results,
                   config_status, should_proceed, push, compare, history, ret, exit_code>>

\* Variant: the run goes on to the execution stage although a device has
\* pending configuration.
FinishPending_ignore ==
    /\ pc = "pending"
    /\ \A i \in Tasks : st[i] = "collected"
    /\ pc' = "execute" /\ ppc' = StartPushes(parallel) /\ UNCHANGED ret
    /\ pending_devices' = <<>>
    /\ st' = NoTasks
    /\ fut' = NoFut
    /\ UNCHANGED <<aside, inputs, devices, config_content, conn_results, config_status,
                   should_proceed, locked, calls, loaded, skipped, confirm, pret, results,
                   compare, history, exit_code>>

\* Lines 208-215 and the caller's test (1072-1073); pending_devices is local
\* to _validate_device_state.
FinishPending ==
    /\ pc = "pending"
    /\ \A i \in Tasks : st[i] = "collected"
    /\ IF pending_devices # <<>>
       THEN Return(FALSE) /\ UNCHANGED ppc
       ELSE pc' = "execute" /\ ppc' = StartPushes(parallel) /\ UNCHANGED ret
    /\ pending_devices' = <<>>
    /\ st' = NoTasks
    /\ fut' = NoFut
    /\ UNCHANGED <<aside, inputs, devices, config_content, conn_results, config_status,
                   should_proceed, locked, calls, loaded, skipped, confirm, pret, results,
                   compare, history, exit_code>>

(***************************************************************************)
(* _push_config_to_device on devices[i].  Each action is one session call  *)
(* and the control flow up to the next one.  A call that raises is caught  *)
(* by the except clauses of lines 267-270, which make the result           *)
(* (False, "Junos error: ...") or (False, "Unexpected error: ...");        *)
(* the model writes both as (FALSE, "error").                              *)
(***************************************************************************)
\* After the session is open: the backup when requested (line 224), else the
\* edit scope.
AfterConnect(bk) == IF bk THEN "backup" ELSE "lock"

\* Variant: a failed backup does not stop the push.
AfterBackup_open(backup_result) == "lock"

\* After create_backup returned backup_result (lines 226-230).
AfterBackup(backup_result) == IF backup_result THEN "lock" ELSE "close"

\* Variant: every operation commits after the load.
AfterLoad_commit(op) == "commit"

\* After cu.load (lines 248-262, and 242 for rollback).
AfterLoad(op) == IF op = "check" THEN "commit_check" ELSE "commit"

\* confirm=5 of line 262
ConfirmMinutes == 5

\* Variant: commit-confirmed commits without a confirmation window.
ConfirmWindow_none(op) == 0

\* The confirm argument of cu.commit of lines 242, 257 and 262 (0: absent).
ConfirmWindow(op) == IF op = "commit-confirmed" THEN ConfirmMinutes ELSE 0

\* The commit call of lines 242, 257 and 262.
CommitCall(op) == IF op = "commit-confirmed" THEN "commit_confirm_5" ELSE "commit"

\* The result returned after a commit that did not raise (lines 243, 258, 263).
CommitResult(op) ==
    CASE op = "rollback" -> <<TRUE, "rollback completed">>
      [] op = "commit" -> <<TRUE, "committed">>
      [] OTHER -> <<TRUE, "committed with confirmation">>

\* Variant: a ConnectError is not caught in the push and ends execute in its
\* own except clause.
PushConnect_raise(i) ==
    /\ pc = "execute"
    /\ ppc[i] = "connect"
    /\ calls' = [calls EXCEPT ![i] = Append(@, "connect")]
    /\ \E ok \in BOOLEAN :
          IF ok
          THEN ppc' = [ppc EXCEPT ![i] = AfterConnect(backup)] /\ UNCHANGED <<pc, ret>>
          ELSE Return(FALSE) /\ UNCHANGED ppc
    /\ UNCHANGED <<aside, inputs, devices, config_content, stage, locked, loaded, skipped,
                   confirm, pret, results, compare, history, exit_code>>

\* Line 221: Device(...).__enter__ opens the session or raises ConnectError.
PushConnect(i) ==
    /\ pc = "execute"
    /\ ppc[i] = "connect"
    /\ calls' = [calls EXCEPT ![i] = Append(@, "connect")]
    /\ \E ok \in BOOLEAN :
          IF ok
          THEN ppc' = [ppc EXCEPT ![i] = AfterConnect(backup)] /\ UNCHANGED pret
          ELSE /\ ppc' = [ppc EXCEPT ![i] = "done"]
               /\ pret' = [pret EXCEPT ![i] = <<FALSE, "error">>]
    /\ UNCHANGED <<aside, inputs, pc, devices, config_content, stage, locked, loaded,
                   skipped, confirm,
                   results, compare, history, ret, exit_code>>

\* Lines 224-227: BackupManager.create_backup reads the configuration and
\* writes the file, or catches the failure and returns False.
PushBackup(i) ==
    /\ pc = "execute"
    /\ ppc[i] = "backup"
    /\ \E backup_result \in BOOLEAN :
          /\ calls' = [calls EXCEPT ![i] =
                          Append(@, IF backup_result THEN "backup" ELSE "backup_failed")]
          /\ ppc' = [ppc EXCEPT ![i] = AfterBackup(backup_result)]
          /\ pret' = [pret EXCEPT ![i] =
                         IF backup_result THEN @ ELSE <<FALSE, "Failed to create backup">>]
    /\ UNCHANGED <<aside, inputs, pc, devices, config_content, stage, locked, loaded,
                   skipped, confirm,
                   results, compare, history, ret, exit_code>>

\* Line 230: Config(dev, mode='private').__enter__ opens the edit scope or raises.
PushLock(i) ==
    /\ pc = "execute"
    /\ ppc[i] = "lock"
    /\ \E ok \in BOOLEAN :
          IF ok
          THEN /\ locked' = [locked EXCEPT ![i] = TRUE]
               /\ calls' = [calls EXCEPT ![i] = Append(@, "lock")]
               /\ ppc' = [ppc EXCEPT ![i] = "body"]
               /\ UNCHANGED pret
          ELSE /\ calls' = [calls EXCEPT ![i] = Append(@, "lock_failed")]
               /\ ppc' = [ppc EXCEPT ![i] = "close"]
               /\ pret' = [pret EXCEPT ![i] = <<FALSE, "error">>]
               /\ UNCHANGED locked
    /\ UNCHANGED <<aside, inputs, pc, devices, config_content, stage, loaded, skipped, confirm,
                   results, compare, history, ret, exit_code>>

\* The text handed to cu.load (lines 234, 239, 246).
LoadText(op, content) == IF op = "rollback" THEN convert_set_to_delete(content) ELSE content

\* The lines the conversion of line 234 warns about (line 758).
Warned(op, content) == IF op = "rollback" THEN convert_skipped(content) ELSE <<>>

\* Variant: an empty conversion is loaded like any other.
EmptyExit_never(op, delete_config) == FALSE

\* Lines 232-236: the rollback returns before cu.load when the converted
\* text is blank.
EmptyExit(op, delete_config) == op = "rollback" /\ Strip(delete_config) = <<>>

\* Lines 232-246: the rollback conversion with its empty exit, and cu.load.
PushLoad(i) ==
    /\ pc = "execute"
    /\ ppc[i] = "body"
    /\ skipped' = [skipped EXCEPT ![i] = Warned(operation, config_content)]
    /\ IF EmptyExit(operation, LoadText(operation, config_content))
       THEN /\ pret' = [pret EXCEPT ![i] = <<FALSE, "No valid set commands found">>]
            /\ ppc' = [ppc EXCEPT ![i] = "unlock"]
            /\ UNCHANGED <<calls, loaded>>
       ELSE /\ calls' = [calls EXCEPT ![i] = Append(@, "load")]
            /\ loaded' = [loaded EXCEPT ![i] = LoadText(operation, config_content)]
            /\ \E ok \in BOOLEAN :
                  IF ok
                  THEN ppc' = [ppc EXCEPT ![i] = AfterLoad(operation)] /\ UNCHANGED pret
                  ELSE /\ ppc' = [ppc EXCEPT ![i] = "unlock"]
                       /\ pret' = [pret EXCEPT ![i] = <<FALSE, "error">>]
    /\ UNCHANGED <<aside, confirm, inputs, pc, devices, config_content, stage, locked,
                   results, compare, history, ret, exit_code>>

\* The result of the check operation for an answer of cu.commit_check
\* (lines 250-253; "raise" is caught by the except clauses).
CheckResult(answer) ==
    CASE answer = "true" -> <<TRUE, "Configuration check passed">>
      [] answer = "false" -> <<FALSE, "Configuration check failed">>
      [] OTHER -> <<FALSE, "error">>

\* Lines 248-253
PushCommitCheck(i) ==
    /\ pc = "execute"
    /\ ppc[i] = "commit_check"
    /\ \E answer \in {"true", "false", "raise"} :
          /\ calls' = [calls EXCEPT ![i] = Append(@, "commit_check_" \o answer)]
          /\ pret' = [pret EXCEPT ![i] = CheckResult(answer)]
    /\ ppc' = [ppc EXCEPT ![i] = "unlock"]
    /\ UNCHANGED <<aside, inputs, pc, devices, config_content, stage, locked, loaded,
                   skipped, confirm,
                   results, compare, history, ret, exit_code>>

\* Lines 242-243, 257-258, 262-263: cu.commit returns or raises.
PushCommit(i) ==
    /\ pc = "execute"
    /\ ppc[i] = "commit"
    /\ calls' = [calls EXCEPT ![i] = Append(@, CommitCall(operation))]
    /\ confirm' = [confirm EXCEPT ![i] = ConfirmWindow(operation)]
    /\ \E ok \in BOOLEAN :
          pret' = [pret EXCEPT ![i] = IF ok THEN CommitResult(operation)
                                      ELSE <<FALSE, "error">>]
    /\ ppc' = [ppc EXCEPT ![i] = "unlock"]
    /\ UNCHANGED <<aside, inputs, pc, devices, config_content, stage, locked, loaded, skipped,
                   results, compare, history, ret, exit_code>>

\* Variant: the edit scope is closed on the success path only.
PushUnlock_leak(i) ==
    /\ pc = "execute"
    /\ ppc[i] = "unlock"
    /\ locked' = [locked EXCEPT ![i] = ~pret[i][1]]
    /\ calls' = [calls EXCEPT ![i] = IF pret[i][1] THEN Append(@, "unlock") ELSE @]
    /\ ppc' = [ppc EXCEPT ![i] = "close"]
    /\ UNCHANGED <<aside, inputs, pc, devices, config_content, stage, loaded, skipped,
                   confirm, pret,
                   results, compare, history, ret, exit_code>>

\* Leaving the `with Config(...)` block of line 230, by return or by
\* exception: Config.__exit__ closes the edit scope.
PushUnlock(i) ==
    /\ pc = "execute"
    /\ ppc[i] = "unlock"
    /\ locked' = [locked EXCEPT ![i] = FALSE]
    /\ calls' = [calls EXCEPT ![i] = Append(@, "unlock")]
    /\ ppc' = [ppc EXCEPT ![i] = "close"]
    /\ UNCHANGED <<aside, inputs, pc, devices, config_content, stage, loaded, skipped,
                   confirm, pret,
                   results, compare, history, ret, exit_code>>

\* Leaving the `with Device(...)` block of line 221: the session is closed
\* and the call returns its result.
PushClose(i) ==
    /\ pc = "execute"
    /\ ppc[i] = "close"
    /\ calls' = [calls EXCEPT ![i] = Append(@, "close")]
    /\ ppc' = [ppc EXCEPT ![i] = "done"]
    /\ UNCHANGED <<aside, inputs, pc, devices, config_content, stage, locked, loaded,
                   skipped, confirm, pret,
                   results, compare, history, ret, exit_code>>

(***************************************************************************)
(* _execute_parallel, _execute_sequential and the verdict.                 *)
(***************************************************************************)
\* Variant: the sequential loop stops at the first failed device.
AfterCollect_stop(par, p, i) ==
    [k \in Tasks |-> IF k = i THEN "collected"
                     ELSE IF ~par /\ k = i + 1
                          THEN (IF pret[i][1] THEN "connect" ELSE "collected")
                     ELSE p[k]]

\* Variant: a failed push cancels the pushes that have not returned yet.
AfterCollect_cancel(par, p, i) ==
    [k \in Tasks |-> IF k = i THEN "collected"
                     ELSE IF ~par /\ k = i + 1 THEN "connect"
                     ELSE IF par /\ ~pret[i][1] /\ p[k] # "done" THEN "collected"
                     ELSE p[k]]

\* Positions of the pushes once push i has returned and its result is
\* stored: in sequential mode the loop of line 972 goes on to the next
\* device, whatever the result.
AfterCollect(par, p, i) ==
    [k \in Tasks |-> IF k = i THEN "collected"
                     ELSE IF ~par /\ k = i + 1 THEN "connect"
                     ELSE p[k]]

\* results[device] = (success, message): line 961 (as_completed loop) and
\* line 984.
CollectResult(i) ==
    /\ pc = "execute"
    /\ ppc[i] = "done"
    /\ results' = Put(results, devices[i], pret[i])
    /\ ppc' = AfterCollect(parallel, ppc, i)
    /\ UNCHANGED <<aside, inputs, pc, devices, config_content, stage, locked, calls,
                   loaded, skipped, confirm,
                   pret, compare, history, ret, exit_code>>

\* Variant: one successful device is enough.
AllSuccess_any(res) == \E d \in DOMAIN res : res[d][1]

\* all_success, line 1090
AllSuccess(res) == \A d \in DOMAIN res : res[d][1]

\* execute, lines 1086-1091
Aggregate ==
    /\ pc = "execute"
    /\ \A i \in Tasks : ppc[i] = "collected"
    /\ Return(AllSuccess(results))
    /\ UNCHANGED <<aside, inputs, devices, config_content, stage, push, compare, history,
                   exit_code>>

(***************************************************************************)
(* _compare_device_configs: the two configuration reads.                   *)
(***************************************************************************)
\* get_device_config on devices[i]
GetDeviceConfig(i) ==
    /\ pc = "compare"
    /\ st[i] = "submitted"
    /\ \E ok \in BOOLEAN, current \in CurrentConfigs :
          fut' = [fut EXCEPT ![i] = [error |-> ~ok, lines |-> IF ok THEN current ELSE {}]]
    /\ st' = [st EXCEPT ![i] = "done"]
    /\ contacts' = contacts \cup {<<devices[i], "compare_read">>}
    /\ UNCHANGED <<aside, inputs, pc, devices, config_content, conn_results, config_status,
                   should_proceed, pending_devices, push, compare, drift_present,
                   pending_unknown, fully_present, ret, exit_code>>

\* as_completed loop, lines 538-543
CollectDeviceConfig(i) ==
    /\ pc = "compare"
    /\ st[i] = "done"
    /\ IF fut[i].error
       THEN cmp_errors' = cmp_errors \cup {devices[i]} /\ UNCHANGED cmp_results
       ELSE cmp_results' = Put(cmp_results, devices[i], fut[i].lines) /\ UNCHANGED cmp_errors
    /\ st' = [st EXCEPT ![i] = "collected"]
    /\ UNCHANGED <<aside, inputs, pc, devices, config_content, fut, conn_results,
                   config_status, should_proceed, pending_devices, push,
                   history, ret, exit_code>>

\* Lines 545-578: False when a read failed, True once the comparison is
\* displayed.
FinishCompare ==
    /\ pc = "compare"
    /\ \A i \in Tasks : st[i] = "collected"
    /\ Return(cmp_errors = {})
    /\ st' = NoTasks
    /\ fut' = NoFut
    /\ UNCHANGED <<aside, inputs, devices, config_content, conn_results, config_status,
                   should_proceed, pending_devices, push, compare, history, exit_code>>

(***************************************************************************)
(* cli.main                                                                *)
(***************************************************************************)
\* sys.exit status for the value execute returned (lines 122-127).
ExitCode(success) == IF success THEN 0 ELSE 1

Exit ==
    /\ pc = "returned"
    /\ exit_code' = ExitCode(ret)
    /\ pc' = "exited"
    /\ UNCHANGED <<aside, inputs, devices, config_content, stage, push, compare, history, ret>>

(***************************************************************************)
(* Specification.                                                          *)
(***************************************************************************)
Next ==
    \/ ValidateGroup
    \/ ValidateConfig
    \/ \E i \in Tasks : TestConnection(i)
    \/ \E i \in Tasks : CollectConnectivity(i)
    \/ FinishConnectivity
    \/ \E i \in Tasks : CheckExistingConfig(i)
    \/ \E i \in Tasks : CollectConfigStatus(i)
    \/ FinishConfigStatus
    \/ EvaluateConfigStatus
    \/ \E i \in Tasks : CheckPendingConfig(i)
    \/ \E i \in Tasks : CollectPending(i)
    \/ FinishPending
    \/ \E i \in Tasks : PushConnect(i)
    \/ \E i \in Tasks : PushBackup(i)
    \/ \E i \in Tasks : PushLock(i)
    \/ \E i \in Tasks : PushLoad(i)
    \/ \E i \in Tasks : PushCommitCheck(i)
    \/ \E i \in Tasks : PushCommit(i)
    \/ \E i \in Tasks : PushUnlock(i)
    \/ \E i \in Tasks : PushClose(i)
    \/ \E i \in Tasks : CollectResult(i)
    \/ Aggregate
    \/ \E i \in Tasks : GetDeviceConfig(i)
    \/ \E i \in Tasks : CollectDeviceConfig(i)
    \/ FinishCompare
    \/ Exit

Spec == Init /\ [][Next]_vars

(***************************************************************************)
(* The text functions on their own: clean, validate, convert, applied to   *)
(* bounded texts.                                                          *)
(***************************************************************************)
\* All sequences over S of length at most n.
SeqsUpTo(S, n) == UNION {[1..k -> S] : k \in 0..n}

TextChars == {"a", " ", "\t", "#", "\n"}
BodyChars == {"a", " ", "\"", "[", "]"}
W_SET == <<"S", "E", "T">>
W_foo == <<"f", "o", "o">>
Verbs == {W_set, W_delete, W_activate, W_SET, W_foo}

\* Any short text.
FreeTexts == SeqsUpTo(TextChars, MaxTextLen)

\* One line: a verb, a space and a short body.
VerbLines == {v \o SP \o b : v \in Verbs, b \in SeqsUpTo(BodyChars, MaxBodyLen)}

\* Documents of two lines.
SampleLines ==
    { L_ab, L_del_ac, W_set \o SP \o <<"a">>, L_ab \o <<" ", "\"">>,
      L_del_ac \o <<" ", "[">>, W_foo, <<"#", "x">>, <<>> }
TwoLineDocs == {a \o NL \o b : a \in SampleLines, b \in SampleLines}

Documents == FreeTexts \cup VerbLines \cup TwoLineDocs

\* What validate_and_clean_config makes of a content: whether it returns,
\* and the errors _validate_config_syntax listed.
ValidationReport(content) ==
    [ok |-> validate_and_clean_config(content).ok,
     errors |-> IF Strip(content) = <<>> THEN <<>>
                ELSE validate_config_syntax(clean_config_content(content))]

TextInit ==
    /\ txt \in {<<x>> : x \in Documents}
    /\ applied = <<>>
    /\ report = <<>>
    /\ group = [found |-> FALSE, devices |-> <<>>]
    /\ config_file = "blank.conf"
    /\ operation = "check"
    /\ dry_run = TRUE
    /\ parallel = FALSE
    /\ backup = FALSE
    /\ Fresh
    /\ NoDiff

\* ConfigValidator._clean_config_content applied to the latest text
CleanText ==
    /\ Len(applied) < MaxApply
    /\ txt' = Append(txt, clean_config_content(txt[Len(txt)]))
    /\ applied' = Append(applied, "clean")
    /\ UNCHANGED <<report, program, diff>>

\* JunosPushTool._convert_set_to_delete applied to the latest text
ConvertText ==
    /\ Len(applied) < MaxApply
    /\ txt' = Append(txt, convert_set_to_delete(txt[Len(txt)]))
    /\ applied' = Append(applied, "convert")
    /\ UNCHANGED <<report, program, diff>>

\* ConfigValidator.validate_and_clean_config applied to the text
ValidateText ==
    /\ applied = <<>>
    /\ report = <<>>
    /\ report' = << ValidationReport(txt[1]) >>
    /\ UNCHANGED <<txt, applied, program, diff>>

TextNext ==
    \/ CleanText
    \/ ConvertText
    \/ ValidateText

TextSpec == TextInit /\ [][TextNext]_vars

(***************************************************************************)
(* The comparison of _compare_device_configs (lines 551-565) and its       *)
(* similarity pass, _find_similar_lines_advanced, on their own.            *)
(***************************************************************************)
\* Configuration lines the two devices can hold.
L_vlan(n) == W_set \o SP \o <<"v", "l", "a", "n">> \o SP \o n
L_vlan10 == L_vlan(<<"1", "0">>)
L_vlan20 == L_vlan(<<"2", "0">>)
L_vlan30 == L_vlan(<<"3", "0">>)
L_vlan1011 == L_vlan(<<"1", "0", "1", "1">>)
L_vlan1022 == L_vlan(<<"1", "0", "2", "2">>)
L_ip == W_set \o SP \o <<"i", "p", " ", "1", ".", "1", ".", "1", ".", "1", "/", "2", "4">>
L_if(n) == W_set \o SP \o <<"i", "n", "t", "e", "r", "f", "a", "c", "e">> \o SP \o n
L_ge == L_if(<<"g", "e", "-", "0", "/", "0">>)
L_xe == L_if(<<"x", "e", "-", "1", "/", "1">>)
LinePool == {L_vlan10, L_vlan20, L_vlan30, L_vlan1011, L_vlan1022, L_ip, L_ge, L_xe}

\* The line sets a device's filtered configuration can be.
ConfigSets == {S \in SUBSET LinePool : Cardinality(S) <= MaxConfigLines}

\* list(S): the elements of a set in one of the orders iteration can take.
Orders(S) == {q \in [1..Cardinality(S) -> S] : Range(q) = S}

\* ratio(line1, line2) for the lines of the pool, computed once.
RatioTable ==
    {<<i, a, b, ratio(i, a, b)>> : i \in RatioImpls, a \in LinePool, b \in LinePool}

\* ratio(line1, line2) under the bound implementation
Ratio(impl, line1, line2) ==
    (CHOOSE t \in RatioTable : t[1] = impl /\ t[2] = line1 /\ t[3] = line2)[4]

\* 0.85 of lines 466 and 472, in hundredths
Threshold == 85

\* Comparisons of ratios kept as <<numerator, denominator>>
AtLeastPercent(r, pct) == r[1] * 100 >= pct * r[2]
BelowOne(r) == r[1] < r[2]
Greater(r, q) == r[1] * q[2] > q[1] * r[2]

\* Variant: lines that are 80% alike count as similar.
AtThreshold_loose(r) == AtLeastPercent(r, 80)

\* 0.85 <= r (lines 466 and 472)
AtThreshold(r) == AtLeastPercent(r, Threshold)

\* The test of line 466
IsCandidate(similarity, line1, line2) ==
    AtThreshold(similarity) /\ BelowOne(similarity) /\ line1 # line2

\* Variant: the first line that is similar enough is taken.
Better_first(similarity, best_ratio) == best_ratio = <<0, 1>>

\* The test of line 467
Better(similarity, best_ratio) == Greater(similarity, best_ratio)

\* Variant: lines of the second list that are matched already are not
\* skipped.
Skip_never(line2, matched2) == FALSE

\* The test of line 458
Skip(line2, matched2) == line2 \in matched2

\* The inner loop, lines 452-469: [best_match, best_ratio] once list2 has
\* been gone through; best_match is <<>> for None, else << line >>.
BestMatch(impl, line1, l2, matched2) ==
    LET RECURSIVE go(_, _)
        go(k, best) ==
            IF k > Len(l2) THEN best
            ELSE IF Skip(l2[k], matched2) THEN go(k + 1, best)
            ELSE LET similarity == Ratio(impl, line1, l2[k])
                 IN  IF IsCandidate(similarity, line1, l2[k])
                        /\ Better(similarity, best.best_ratio)
                     THEN go(k + 1, [best_match |-> << l2[k] >>,
                                     best_ratio |-> similarity])
                     ELSE go(k + 1, best)
    IN  go(1, [best_match |-> <<>>, best_ratio |-> <<0, 1>>])

\* The test of line 472
Accepted(best) ==
    /\ best.best_match # <<>>
    /\ best.best_match[1] # <<>>
    /\ AtThreshold(best.best_ratio)

\* One iteration of the loop of line 451 for line1, from the pairs and
\* matched sets so far.
MatchOne(impl, line1, l2, acc) ==
    LET best == BestMatch(impl, line1, l2, acc.matched_lines2)
    IN  IF Accepted(best)
        THEN [similar_pairs |-> Append(acc.similar_pairs, <<line1, best.best_match[1]>>),
              matched_lines1 |-> acc.matched_lines1 \cup {line1},
              matched_lines2 |-> acc.matched_lines2 \cup {best.best_match[1]}]
        ELSE acc

\* _find_similar_lines_advanced for the iteration orders l1 and l2 of its two
\* arguments: (similar_pairs, truly_unique_lines1, truly_unique_lines2).
find_similar_lines_advanced(impl, l1, l2) ==
    LET RECURSIVE go(_, _)
        go(k, acc) ==
            IF k > Len(l1) THEN acc ELSE go(k + 1, MatchOne(impl, l1[k], l2, acc))
        r == go(1, [similar_pairs |-> <<>>, matched_lines1 |-> {},
                    matched_lines2 |-> {}])
    IN  <<r.similar_pairs, Range(l1) \ r.matched_lines1, Range(l2) \ r.matched_lines2>>

DiffInit ==
    /\ ratio_impl \in RatioImpls
    /\ config1 \in ConfigSets
    /\ config2 \in ConfigSets
    /\ common_lines = {}
    /\ list1 = <<>>
    /\ list2 = <<>>
    /\ idx = 0
    /\ similar_pairs = <<>>
    /\ matched_lines1 = {}
    /\ matched_lines2 = {}
    /\ truly_unique = <<{}, {}>>
    /\ dpc = "start"
    /\ group = [found |-> FALSE, devices |-> <<>>]
    /\ config_file = "blank.conf"
    /\ operation = "compare"
    /\ dry_run = TRUE
    /\ parallel = FALSE
    /\ backup = FALSE
    /\ Fresh
    /\ NoText

\* Lines 551-557 and 447-448: the exact matches, the two remainders, and
\* their conversion to lists.
Partition ==
    /\ dpc = "start"
    /\ common_lines' = config1 \cap config2
    /\ list1' \in Orders(config1 \ common_lines')
    /\ list2' \in Orders(config2 \ common_lines')
    /\ idx' = 1
    /\ dpc' = "loop"
    /\ UNCHANGED <<ratio_impl, config1, config2, similar_pairs, matched_lines1,
                   matched_lines2, truly_unique, program, pure>>

\* Lines 451-475: one iteration of the loop over list1.
MatchLine ==
    /\ dpc = "loop"
    /\ idx <= Len(list1)
    /\ LET r == MatchOne(ratio_impl, list1[idx], list2,
                         [similar_pairs |-> similar_pairs,
                          matched_lines1 |-> matched_lines1,
                          matched_lines2 |-> matched_lines2])
       IN  /\ similar_pairs' = r.similar_pairs
           /\ matched_lines1' = r.matched_lines1
           /\ matched_lines2' = r.matched_lines2
    /\ idx' = idx + 1
    /\ UNCHANGED <<ratio_impl, config1, config2, common_lines, list1, list2,
                   truly_unique, dpc, program, pure>>

\* Lines 477-481: the truly unique lines, and the return.
FinishSimilar ==
    /\ dpc = "loop"
    /\ idx > Len(list1)
    /\ truly_unique' = <<Range(list1) \ matched_lines1, Range(list2) \ matched_lines2>>
    /\ dpc' = "done"
    /\ UNCHANGED <<ratio_impl, config1, config2, common_lines, list1, list2, idx,
                   similar_pairs, matched_lines1, matched_lines2, program, pure>>

DiffNext ==
    \/ Partition
    \/ MatchLine
    \/ FinishSimilar

DiffSpec == DiffInit /\ [][DiffNext]_vars

(***************************************************************************)
(* Vocabulary of the properties.                                           *)
(***************************************************************************)
\* Push i has issued call c.
Issued(i, c) == \E k \in 1..Len(calls[i]) : calls[i][k] = c

\* The calls that open the edit scope, load, validate or commit.
EditCalls == {"lock", "lock_failed", "load", "commit_check_true", "commit_check_false",
              "commit_check_raise", "commit", "commit_confirm_5"}

\* The calls that commit.
CommitCalls == {"commit", "commit_confirm_5"}

\* Push i has issued none of the calls of S.
NoneIssued(i, S) == \A k \in 1..Len(calls[i]) : calls[i][k] \notin S

\* Push i has returned its result.
Returned(i) == ppc[i] \in {"done", "collected"}

\* execute has returned.
Finished == pc \in {"returned", "exited"}

\* execute has returned from the end of the execution stage.
Executed == Finished /\ \A i \in Tasks : ppc[i] = "collected"

\* The validator rejects the content: it is blank, or its cleaned text has
\* a syntax error.
Rejected(content) ==
    \/ Strip(content) = <<>>
    \/ validate_config_syntax(clean_config_content(content)) # <<>>

\* The files whose content the validator rejects.
RejectedFiles == {f \in ConfigFiles : Rejected(FileContent(f))}

\* The cleaned content of each file.
CleanedFile == [f \in ConfigFiles |-> clean_config_content(FileContent(f))]

\* The operations that run the pending-configuration check.
PendingChecked == {"check", "commit", "commit-confirmed"}

(***************************************************************************)
(* Properties.                                                             *)
(***************************************************************************)
\* C1: for check, commit and commit-confirmed, when a device of the group has
\* a candidate line that is not committed, the pending check fails, execute
\* returns false and no push opens an edit scope, loads, validates or
\* commits on any device.  (Stated for a group of two distinct devices.)
C1_PendingDriftAborts ==
    (operation \in PendingChecked /\ drift_present /\ pc # "pending"
        /\ devices = <<"d1", "d2">>) =>
        /\ Finished
        /\ ret = FALSE
        /\ \A i \in Tasks : NoneIssued(i, EditCalls)

\* C2: for check, commit and commit-confirmed, a load or a commit is issued
\* only when the pending check of every device read both databases and
\* found no pending line.  (Stated for a group of two distinct devices.)
C2_NoPushOnUnknownPending ==
    (operation \in PendingChecked /\ devices = <<"d1", "d2">>
        /\ \E i \in Tasks : ~NoneIssued(i, {"load"} \cup CommitCalls)) =>
        (~pending_unknown /\ ~drift_present)

\* C3: when the connectivity test has a device of the group unreachable, the
\* run aborts: execute returns false, and apart from the probes of the test
\* itself no stage contacts a device and no push is started.
C3_UnreachableAborts ==
    (\E d \in DOMAIN conn_results : ~conn_results[d]) =>
        /\ pc \in {"connectivity", "returned", "exited"}
        /\ Finished => ret = FALSE
        /\ \A c \in contacts : c[2] = "probe"
        /\ \A i \in Tasks : calls[i] = <<>>

\* C3 witness: one device reachable, the other not, and the run has exited.
C3_Witness ==
    /\ pc = "exited"
    /\ DOMAIN conn_results = {"d1", "d2"}
    /\ conn_results["d1"] /\ ~conn_results["d2"]
    /\ operation = "commit"
    /\ contacts = {<<"d1", "probe">>, <<"d2", "probe">>}

\* C4: in the check operation no commit is issued; a push that validated
\* had loaded first; a device's result is success exactly when its
\* commit-check answered true; and when both pass the verdict is true.
C4_CheckNeverCommits ==
    operation = "check" =>
        /\ \A i \in Tasks :
              /\ NoneIssued(i, CommitCalls)
              /\ ppc[i] = "commit_check" => Issued(i, "load")
              /\ Returned(i) => (pret[i][1] <=> Issued(i, "commit_check_true"))
        /\ (Executed /\ \A i \in Tasks : Issued(i, "commit_check_true")) => ret = TRUE

\* C4 witness: both devices passed the check and the run returned true.
C4_Witness ==
    /\ operation = "check"
    /\ pc = "exited"
    /\ ret = TRUE
    /\ devices = <<"d1", "d2">>
    /\ \A i \in Tasks :
          calls[i] = <<"connect", "lock", "load", "commit_check_true", "unlock", "close">>
    /\ \A i \in Tasks : loaded[i] = L_ab \o NL \o L_ac \o NL \o L_ad

\* C5: with backup requested, every edit-scope, load or commit call of a
\* push comes after its snapshot was written; a push whose snapshot failed
\* issues none of them and returns a failure; and the run still carries out
\* the push of the other device.
C5_BackupBeforeMutation ==
    backup =>
        /\ \A i \in Tasks : \A k \in 1..Len(calls[i]) :
              calls[i][k] \in EditCalls => \E j \in 1..(k - 1) : calls[i][j] = "backup"
        /\ \A i \in Tasks : Issued(i, "backup_failed") =>
              /\ NoneIssued(i, EditCalls)
              /\ ~pret[i][1]
              /\ ppc[i] \in {"close", "done", "collected"}
        /\ (Finished /\ \E i \in Tasks : Issued(i, "backup_failed")) =>
              \A j \in Tasks : ppc[j] = "collected"

\* C5 witness: the first device's snapshot failed, the second device was
\* backed up and committed.
C5_Witness ==
    /\ backup
    /\ pc = "exited"
    /\ devices = <<"d1", "d2">>
    /\ Issued(1, "backup_failed")
    /\ calls[2] = <<"connect", "backup", "lock", "load", "commit", "unlock", "close">>
    /\ results["d2"][1]
    /\ ~results["d1"][1]

\* C6: a push that has returned its result holds no edit scope, whatever the
\* exit path, and no scope is held when execute returns; every scope opened
\* was closed by an unlock.
C6_LockReleased ==
    /\ \A i \in Tasks : Returned(i) => (~locked[i] /\ (Issued(i, "lock") => Issued(i, "unlock")))
    /\ Finished => \A i \in Tasks : ~locked[i]

\* C6 witness: one push opened the scope and left it by an exception, the
\* other opened it and succeeded; both have returned and the run has exited.
C6_Witness ==
    /\ pc = "exited"
    /\ Issued(1, "lock") /\ Issued(1, "unlock") /\ pret[1] = <<FALSE, "error">>
    /\ Issued(2, "lock") /\ Issued(2, "unlock") /\ pret[2][1]

\* C7: when the execution stage was reached, execute returns true exactly
\* when every device of the group has a success result, and the exit code is
\* 0 exactly when execute returned true.
C7_VerdictIsConjunction ==
    /\ Executed =>
          /\ DOMAIN results = Range(devices)
          /\ ret = TRUE <=> \A d \in Range(devices) : results[d][1]
    /\ pc = "exited" => (exit_code = 0 <=> ret = TRUE)

\* C7 witness: one device committed, the other failed, the verdict is false
\* and the exit code is not 0.
C7_Witness ==
    /\ pc = "exited"
    /\ operation = "commit"
    /\ devices = <<"d1", "d2">>
    /\ DOMAIN results = {"d1", "d2"}
    /\ results["d1"] = <<TRUE, "committed">>
    /\ ~results["d2"][1]
    /\ ret = FALSE
    /\ exit_code = 1

\* C8: a group that is missing or does not resolve to exactly 2 devices makes
\* execute return false with no device contacted; a group of exactly 2
\* devices is used as it is and passes the group check (a false verdict then
\* comes from a later step).
C8_GroupOfTwo ==
    /\ (~group.found \/ Len(group.devices) # 2) =>
          /\ devices = <<>>
          /\ contacts = {}
          /\ \A i \in Tasks : calls[i] = <<>>
          /\ pc # "start" => (Finished /\ ret = FALSE)
    /\ (group.found /\ Len(group.devices) = 2 /\ pc # "start") =>
          /\ devices = group.devices
          /\ (Finished /\ ret = FALSE) =>
                (contacts # {} \/ (operation # "compare" /\ config_file \in RejectedFiles))

\* C8 witness: a group of 3 devices was refused.
C8_Witness ==
    /\ group.found
    /\ Len(group.devices) = 3
    /\ pc = "exited"
    /\ ~dry_run
    /\ config_file = "sets.conf"

\* C9: for check, commit, commit-confirmed and rollback, a document the
\* validator rejects makes execute return false with no device contacted,
\* and a device is contacted only once the document has been validated.
C9_ValidationBeforeContact ==
    operation # "compare" =>
        /\ config_file \in RejectedFiles =>
              /\ contacts = {}
              /\ \A i \in Tasks : calls[i] = <<>>
              /\ pc \notin {"start", "validate_config"} => (Finished /\ ret = FALSE)
        /\ (contacts # {} \/ \E i \in Tasks : calls[i] # <<>>) =>
              /\ pc \notin {"start", "validate_config"}
              /\ config_content = CleanedFile[config_file]

\* C9 witness: a malformed document was refused for a valid group.
C9_Witness ==
    /\ config_file = "bad.conf"
    /\ operation = "commit"
    /\ ~dry_run
    /\ devices = <<"d1", "d2">>
    /\ pc = "exited"
    /\ ret = FALSE

\* C10: in sequential mode the second push starts only after the first has
\* returned and its result is stored, it is started whatever that result is,
\* and both devices end with a result.
C10_SequentialOrder ==
    ~parallel =>
        /\ ppc[2] # "idle" => ppc[1] = "collected"
        /\ (pc = "execute" /\ ppc[1] = "collected") => ppc[2] # "idle"
        /\ (Finished /\ ppc[1] = "collected") =>
              /\ \A i \in Tasks : ppc[i] = "collected" /\ Issued(i, "connect")
              /\ DOMAIN results = Range(devices)

\* C10 witness: the first device failed and the second was pushed after it.
C10_Witness ==
    /\ ~parallel
    /\ pc = "execute"
    /\ devices = <<"d1", "d2">>
    /\ ppc[1] = "collected"
    /\ ~results["d1"][1]
    /\ Issued(2, "load")

\* Push i ran to its end: its session failed to open, or it was closed.
Completed(i) ==
    /\ calls[i] # <<>>
    /\ calls[i] = <<"connect">> \/ calls[i][Len(calls[i])] = "close"

\* A step of push i leaves the other push as it was.
StepsAlone(i) ==
    \A j \in Tasks \ {i} :
        /\ ppc'[j] = ppc[j]
        /\ pret'[j] = pret[j]
        /\ calls'[j] = calls[j]
        /\ locked'[j] = locked[j]
        /\ loaded'[j] = loaded[j]

\* C11: in parallel mode one push is started per device; no step of a push,
\* a failing one included, changes the position, the calls or the result of
\* the other push; and under every interleaving both pushes run to their
\* end and both devices get the result their push returned.
C11_ParallelIndependence ==
    /\ [](parallel =>
            /\ pc = "execute" => \A i \in Tasks : ppc[i] # "idle"
            /\ (Finished /\ \E i \in Tasks : calls[i] # <<>>) =>
                  /\ \A i \in Tasks : ppc[i] = "collected" /\ Completed(i)
                  /\ DOMAIN results = Range(devices)
                  /\ devices[1] # devices[2] =>
                        \A i \in Tasks : results[devices[i]] = pret[i])
    /\ [][(parallel /\ pc = "execute") =>
            \A i \in Tasks : ppc'[i] # ppc[i] => StepsAlone(i)]_vars

\* C11 witness: in parallel mode the first device's commit failed and the
\* second device committed all the same.
C11_Witness ==
    /\ parallel
    /\ operation = "commit"
    /\ pc = "exited"
    /\ devices = <<"d1", "d2">>
    /\ DOMAIN results = {"d1", "d2"}
    /\ results["d1"] = <<FALSE, "error">>
    /\ Issued(1, "commit")
    /\ results["d2"][1]
    /\ Issued(2, "commit")

\* The rollback of one line, from its tokens: a set line with a path becomes
\* the delete of that path, a delete line the set of it, another line
\* nothing.
SwapLine(line) ==
    LET toks == SplitWS(line)
    IN  IF Len(toks) >= 2 /\ toks[1] = W_set
        THEN << Join(<<W_delete>> \o Tail(toks), SP) >>
        ELSE IF Len(toks) >= 2 /\ toks[1] = W_delete
        THEN << Join(<<W_set>> \o Tail(toks), SP) >>
        ELSE <<>>

\* The lines of a cleaned text that are neither set nor delete lines.
OtherVerbLines(text) ==
    LET lines == SplitOn(text, "\n")
    IN  SelectSeq(lines, LAMBDA l : l # <<>> /\ SwapLine(l) = <<>>)

\* The rollback of a cleaned text: its lines swapped, in order.
SwappedLines(text) ==
    LET lines == SplitOn(text, "\n")
        RECURSIVE go(_, _)
        go(k, acc) ==
            IF k > Len(lines) THEN acc ELSE go(k + 1, acc \o SwapLine(lines[k]))
    IN  go(1, <<>>)

\* Per file: the text a rollback is to load, and the lines it is to skip.
RollbackText == [f \in ConfigFiles |-> Join(SwappedLines(CleanedFile[f]), NL)]
RollbackSkips == [f \in ConfigFiles |-> OtherVerbLines(CleanedFile[f])]

SetOrDeleteLine(t) ==
    /\ Count(t, "\n") = 0
    /\ StartsWith(t, W_set \o SP) \/ StartsWith(t, W_delete \o SP)

AllContacted(kind) == \A d \in Range(devices) : <<d, kind>> \in contacts

\* Some device has had the contact of this kind.
SomeContacted(kind) == \E c \in contacts : c[2] = kind

\* C14 as stated: for check, commit and commit-confirmed the pending check
\* comes before the overlap analysis: no overlap read is performed before
\* the pending check has read every device of the group.
C14_PendingBeforeOverlap ==
    (operation \in PendingChecked /\ SomeContacted("overlap_read")) =>
        AllContacted("pending_read")

\* C14, amended: for check, commit and commit-confirmed the preflight order
\* is connectivity, overlap analysis, pending check: no overlap read before
\* every device was probed, no pending read before the overlap analysis has
\* read every device, no push before the pending check has read every
\* device; and when the pending check finds a device with pending
\* configuration the run returns false and no further stage contacts a
\* device.
C14_PreflightOrder ==
    /\ [](operation \in PendingChecked =>
            /\ SomeContacted("overlap_read") => AllContacted("probe")
            /\ SomeContacted("pending_read") =>
                  AllContacted("overlap_read") /\ pc # "overlap"
            /\ (\E i \in Tasks : calls[i] # <<>>) =>
                  AllContacted("pending_read") /\ pc # "pending"
            /\ pending_devices # <<>> =>
                  pc = "pending" /\ \A i \in Tasks : calls[i] = <<>>)
    /\ [][(operation \in PendingChecked /\ pending_devices # <<>>
            /\ pc' # "pending") =>
            /\ pc' = "returned"
            /\ ret' = FALSE
            /\ contacts' = contacts
            /\ calls' = calls]_vars
    /\ [][Finished => (contacts' = contacts /\ calls' = calls)]_vars

\* C14 witness: a commit run probed, analysed the overlap and checked the
\* pending state of both devices, found pending configuration, and exited
\* with false without a push.
C14_Witness ==
    /\ operation = "commit"
    /\ devices = <<"d1", "d2">>
    /\ pc = "exited"
    /\ ret = FALSE
    /\ AllContacted("probe")
    /\ AllContacted("overlap_read")
    /\ AllContacted("pending_read")
    /\ drift_present
    /\ \A i \in Tasks : calls[i] = <<>>

\* C15: the overlap analysis never aborts a run: its evaluation says proceed
\* for every combination of per-device overlap results and every operation,
\* no run ends at the overlap stage, and when every proposed line is already
\* present on both devices a commit or commit-confirmed still pushes on both
\* (unless the pending check that follows stops the run).
C15_OverlapNeverAborts ==
    /\ should_proceed
    /\ pc = "evaluate" => evaluate_config_status(config_status, operation)
    /\ (Finished /\ AllContacted("overlap_read") /\ devices # <<>>) =>
          \/ Executed /\ \A i \in Tasks : Issued(i, "connect")
          \/ operation \in PendingChecked /\ AllContacted("pending_read")
                /\ \A i \in Tasks : calls[i] = <<>>
    /\ (fully_present /\ operation \in {"commit", "commit-confirmed"}) =>
          pc \in {"pending", "execute", "returned", "exited"}

\* C15 witness: every proposed line was already on both devices and the
\* commit was pushed on both all the same.
C15_Witness ==
    /\ fully_present
    /\ operation = "commit"
    /\ devices = <<"d1", "d2">>
    /\ pc = "exited"
    /\ ret = TRUE
    /\ \A i \in Tasks : Issued(i, "load") /\ Issued(i, "commit")

\* The number of calls of S push i has issued.
TimesIssued(i, S) == Cardinality({k \in 1..Len(calls[i]) : calls[i][k] \in S})

\* C16: in the commit-confirmed operation a push commits once, with a
\* confirmation window of 5 minutes, and never issues a plain (confirming)
\* commit, neither before nor after; in the commit operation the commit has
\* no confirmation window.
C16_ConfirmWindow ==
    \A i \in Tasks :
        /\ TimesIssued(i, CommitCalls) <= 1
        /\ operation = "commit-confirmed" =>
              /\ NoneIssued(i, {"commit"})
              /\ Issued(i, "commit_confirm_5") => confirm[i] = 5
              /\ (Returned(i) /\ pret[i][1]) =>
                    /\ Issued(i, "commit_confirm_5")
                    /\ calls[i][Len(calls[i]) - 2] = "commit_confirm_5"
        /\ operation \in {"commit", "rollback"} =>
              /\ NoneIssued(i, {"commit_confirm_5"})
              /\ confirm[i] = 0
              /\ (Returned(i) /\ pret[i][1]) => Issued(i, "commit")

\* C16 witness: a commit-confirmed run committed with the window on both
\* devices and ended; no confirming commit was issued.
C16_Witness ==
    /\ operation = "commit-confirmed"
    /\ devices = <<"d1", "d2">>
    /\ pc = "exited"
    /\ ret = TRUE
    /\ \A i \in Tasks :
          /\ confirm[i] = 5
          /\ calls[i] = <<"connect", "lock", "load", "commit_confirm_5", "unlock", "close">>

\* The push of task i caught an exception of a session call.
Caught(i) == pret[i] = <<FALSE, "error">>

\* C17: a session call that fails in a push (connect, lock, load, commit)
\* never ends execute: the exception is caught in that push and becomes its
\* (false, message) result, the step that fails leaves the other push as it
\* was, every push is still carried out and collected, and execute returns
\* the conjunction of the stored results.  (The stored result of a device is
\* compared with its push for a group of two distinct devices.)
C17_FailureContained ==
    /\ [](\A i \in Tasks :
            Caught(i) =>
                /\ ppc[i] \in {"unlock", "close", "done", "collected"}
                /\ (ppc[i] = "collected" /\ devices[1] # devices[2]) =>
                      results[devices[i]] = <<FALSE, "error">>)
    /\ []((Finished /\ \E i \in Tasks : calls[i] # <<>>) =>
            /\ Executed
            /\ \A i \in Tasks : Completed(i)
            /\ DOMAIN results = Range(devices)
            /\ ret = AllSuccess(results)
            /\ devices[1] # devices[2] =>
                  \A i \in Tasks : results[devices[i]] = pret[i])
    /\ [][\A i \in Tasks :
            (~Caught(i) /\ Caught(i)') =>
                /\ pc' = pc
                /\ ret' = ret
                /\ \A j \in Tasks \ {i} :
                      pret'[j] = pret[j] /\ calls'[j] = calls[j] /\ ppc'[j] = ppc[j]]_vars

\* C17 witness: the load raised on the first device, the second device
\* committed, and execute returned false.
C17_Witness ==
    /\ operation = "commit"
    /\ devices = <<"d1", "d2">>
    /\ pc = "exited"
    /\ ret = FALSE
    /\ calls[1] = <<"connect", "lock", "load", "unlock", "close">>
    /\ results["d1"] = <<FALSE, "error">>
    /\ results["d2"] = <<TRUE, "committed">>

\* C18: cleaning is idempotent: for any text, cleaning the cleaned text
\* returns the cleaned text.
C18_CleanIdempotent ==
    (Len(applied) >= 2 /\ applied[1] = "clean" /\ applied[2] = "clean") =>
        txt[3] = txt[2]

\* C18 witness: a text with a blank line, a comment line, an inline comment
\* and a run of whitespace was cleaned twice; the first cleaning changed it.
C18_Witness ==
    /\ applied = <<"clean", "clean">>
    /\ txt[1] = <<"a", "\t", "a", "#">>
    /\ txt[2] = <<"a", " ", "a">>
    /\ txt[3] = txt[2]

\* The lines of the cleaned text, as the validator numbers them.
CleanedLines(content) == SplitOn(clean_config_content(content), "\n")

\* The verb of a line.
Verb(line) == Lower(SplitWS(line)[1])

OddQuotes(line) == Count(line, "\"") % 2 # 0
UnbalancedBrackets(line) == Count(line, "[") # Count(line, "]")

\* The validation listed a problem of one of the kinds for line k.
Reported(k, kinds) ==
    \E e \in Range(report[1].errors) : e[1] = k /\ e[2] \in kinds

\* C19: the validation error carries every line-level problem: each problem
\* of each line is listed, also when one line has several.  (Stated for the
\* set lines of the document.)
C19_EveryProblemReported ==
    (report # <<>> /\ Strip(txt[1]) # <<>>) =>
        LET lines == CleanedLines(txt[1])
        IN  \A k \in 1..Len(lines) :
                (lines[k] # <<>> /\ Verb(lines[k]) = W_set) =>
                    /\ Len(SplitWS(lines[k])) < 3 =>
                          Reported(k, {"too_short", "incomplete"})
                    /\ OddQuotes(lines[k]) => Reported(k, {"quotes"})
                    /\ UnbalancedBrackets(lines[k]) => Reported(k, {"brackets"})

\* C20: a document is accepted only if every line has a valid verb, an even
\* number of quote characters, as many `[` as `]`, and, for a set line, at
\* least three tokens; a line of any verb with unbalanced quotes or brackets
\* makes the validation reject the document.
C20_RejectsUnbalanced ==
    (report # <<>> /\ report[1].ok) =>
        LET lines == CleanedLines(txt[1])
        IN  \A k \in 1..Len(lines) :
                lines[k] # <<>> =>
                    /\ Verb(lines[k]) \in valid_set_commands
                    /\ ~OddQuotes(lines[k])
                    /\ ~UnbalancedBrackets(lines[k])
                    /\ Verb(lines[k]) = W_set => Len(SplitWS(lines[k])) >= 3

\* C21: partition law of the comparison: the lines of one device are its
\* common lines, its truly unique lines and its matched lines, each line in
\* exactly one of the three, and each matched pair takes one line of each
\* device: |A| = |common| + |unique1| + |pairs|, |B| = |common| + |unique2|
\* + |pairs|.
C21_PartitionLaw ==
    dpc = "done" =>
        LET m1 == {similar_pairs[k][1] : k \in 1..Len(similar_pairs)}
            m2 == {similar_pairs[k][2] : k \in 1..Len(similar_pairs)}
        IN  /\ Cardinality(config1) =
                  Cardinality(common_lines) + Cardinality(truly_unique[1])
                  + Len(similar_pairs)
            /\ Cardinality(config2) =
                  Cardinality(common_lines) + Cardinality(truly_unique[2])
                  + Len(similar_pairs)
            /\ config1 = common_lines \cup truly_unique[1] \cup m1
            /\ config2 = common_lines \cup truly_unique[2] \cup m2
            /\ common_lines \cap truly_unique[1] = {}
            /\ common_lines \cap m1 = {}
            /\ truly_unique[1] \cap m1 = {}
            /\ common_lines \cap truly_unique[2] = {}
            /\ common_lines \cap m2 = {}
            /\ truly_unique[2] \cap m2 = {}

\* C21 witness: a comparison ended with a common line and a matched pair.
C21_Witness ==
    /\ dpc = "done"
    /\ config1 = {L_ip, L_vlan10}
    /\ config2 = {L_ip, L_vlan20}
    /\ common_lines = {L_ip}
    /\ Len(similar_pairs) = 1
    /\ truly_unique = <<{}, {}>>

\* The pairs of the similarity pass, as a set.
Pairs == Range(similar_pairs)

\* C22: a pair is accepted as similar only if its ratio r has
\* 0.85 <= r < 1.0; lines with ratio 1.0 are the same line and are common,
\* never a similar pair; a pair below 0.85 is never similar (nor is one just
\* below it, while a pair at exactly 0.85 is).  For D1 = {set vlan 10,
\* set ip 1.1.1.1/24} and D2 = {set vlan 20, set ip 1.1.1.1/24} the ip line
\* is common and the two vlan lines form a similar pair, with no truly
\* unique line.
C22_ThresholdBoundary ==
    /\ \A p \in Pairs :
          LET r == Ratio(ratio_impl, p[1], p[2])
          IN  /\ r[1] * 100 >= 85 * r[2]
              /\ r[1] < r[2]
              /\ p[1] # p[2]
              /\ p[1] \notin common_lines /\ p[2] \notin common_lines
    /\ \A a \in config1, b \in config2 :
          LET r == Ratio(ratio_impl, a, b)
          IN  r[1] = r[2] =>
                /\ a = b
                /\ dpc # "start" => a \in common_lines
                /\ \A p \in Pairs : p[1] # a /\ p[2] # b
    /\ dpc = "done" =>
          /\ (config1 = {L_vlan10, L_ip} /\ config2 = {L_vlan20, L_ip}) =>
                /\ common_lines = {L_ip}
                /\ similar_pairs = << <<L_vlan10, L_vlan20>> >>
                /\ truly_unique = <<{}, {}>>
          /\ (config1 = {L_ge} /\ config2 = {L_xe}) =>
                similar_pairs = << <<L_ge, L_xe>> >>
          /\ (config1 = {L_vlan1011} /\ config2 = {L_vlan1022}) =>
                /\ similar_pairs = <<>>
                /\ truly_unique = <<{L_vlan1011}, {L_vlan1022}>>

\* C22 witness: the comparison of the two devices of the scenario ended.
C22_Witness ==
    /\ dpc = "done"
    /\ config1 = {L_vlan10, L_ip}
    /\ config2 = {L_vlan20, L_ip}
    /\ common_lines = {L_ip}
    /\ similar_pairs = << <<L_vlan10, L_vlan20>> >>
    /\ Ratio(ratio_impl, L_vlan10, L_vlan20) = <<20, 22>>

\* No per-device task of the current preflight stage is running or waiting.
StageIdle == \A i \in Tasks : st[i] = "none"

\* C23: each stage is a barrier: a device is read for the overlap analysis
\* (or for the comparison) only after the probes of both devices have
\* completed and been collected, it is read for the pending check only after
\* the overlap reads of both, and a push starts only after the tasks of
\* every preflight stage of the operation have completed on both devices.
C23_StageBarrier ==
    /\ (SomeContacted("overlap_read") \/ SomeContacted("compare_read")) =>
          /\ AllContacted("probe")
          /\ DOMAIN conn_results = Range(devices)
          /\ pc # "connectivity"
    /\ SomeContacted("pending_read") =>
          /\ AllContacted("overlap_read")
          /\ pc \notin {"connectivity", "overlap", "evaluate"}
    /\ (\E i \in Tasks : ppc[i] # "idle") =>
          /\ StageIdle
          /\ AllContacted("probe")
          /\ AllContacted("overlap_read")
          /\ operation \in PendingChecked => AllContacted("pending_read")
          /\ pc \notin {"connectivity", "overlap", "evaluate", "pending"}
    /\ pc = "connectivity" =>
          \A c \in contacts : c[2] = "probe"

\* C23 witness: in the overlap stage one device has been read and the other
\* not yet, after both probes; no later stage has started.
C23_Witness ==
    /\ pc = "overlap"
    /\ devices = <<"d1", "d2">>
    /\ operation = "commit"
    /\ st = <<"submitted", "done">>
    /\ contacts = {<<"d1", "probe">>, <<"d2", "probe">>, <<"d2", "overlap_read">>}
    /\ \A i \in Tasks : ppc[i] = "idle"

\* The lines of list2 that were still unmatched when the line at position
\* pos of list1 was processed.
UnmatchedAt(pos) ==
    Range(list2) \
        {p[2] : p \in {q \in Pairs : \E m \in 1..(pos - 1) : list1[m] = q[1]}}

\* C24: in the similarity pass each line of the first remainder is paired
\* with the line of highest ratio among the lines of the second remainder
\* still unmatched when it is processed, provided that ratio is at least
\* 0.85 (and left unpaired when none reaches 0.85); both lines of a pair
\* are marked matched; no line is in two pairs.
C24_GreedyBestMatch ==
    dpc \in {"loop", "done"} =>
        /\ \A pos \in 1..Len(list1) :
              pos < idx =>
                  LET a == list1[pos]
                      U == UnmatchedAt(pos)
                      mine == {p \in Pairs : p[1] = a}
                  IN  /\ Cardinality(mine) <= 1
                      /\ \A p \in mine :
                            LET r == Ratio(ratio_impl, a, p[2])
                            IN  /\ p[2] \in U
                                /\ r[1] * 100 >= 85 * r[2]
                                /\ \A c \in U :
                                      LET q == Ratio(ratio_impl, a, c)
                                      IN  q[1] * r[2] <= r[1] * q[2]
                      /\ mine = {} =>
                            \A c \in U :
                                LET q == Ratio(ratio_impl, a, c)
                                IN  q[1] * 100 < 85 * q[2]
        /\ \A p \in Pairs : \E pos \in 1..Len(list1) : pos < idx /\ list1[pos] = p[1]
        /\ matched_lines1 = {p[1] : p \in Pairs}
        /\ matched_lines2 = {p[2] : p \in Pairs}
        /\ Cardinality(matched_lines1) = Len(similar_pairs)
        /\ Cardinality(matched_lines2) = Len(similar_pairs)

\* C24 witness: `set vlan 10` had two candidates at or above 0.85 and was
\* paired with the closer one, which came second in the iteration.
C24_Witness ==
    /\ dpc = "done"
    /\ list1 = << L_vlan10 >>
    /\ list2 = << L_vlan20, L_vlan1011 >>
    /\ similar_pairs = << <<L_vlan10, L_vlan1011>> >>
    /\ truly_unique = <<{}, {L_vlan20}>>

\* The overlap records of the devices analysed so far: those the tasks have
\* returned and those collected in config_status.
Analysed ==
    {config_status[d] : d \in DOMAIN config_status}
    \cup (IF pc = "overlap" THEN {fut[i] : i \in {k \in Tasks : st[k] = "done"}} ELSE {})

C26_OneEntryPerDevice ==
    Executed =>
        /\ Cardinality(DOMAIN results) = 2
        /\ \A i \in Tasks : results[devices[i]] = pret[i]

\* C27: with dry-run set, execute contacts no device (no probe, no read, no
\* session, no lock, load or commit), and it returns true whenever the group
\* is valid and, for operations other than compare, the document passes
\* validation.
C27_DryRunContactsNothing ==
    dry_run =>
        /\ contacts = {}
        /\ \A i \in Tasks : calls[i] = <<>> /\ ~locked[i] /\ ppc[i] = "idle" /\ st[i] = "none"
        /\ (Finished /\ GroupOk(group)
               /\ (operation # "compare" => config_file \notin RejectedFiles))
           => ret = TRUE

\* C27 witness: a dry run of a commit of a valid document on a valid group
\* has returned true.
C27_Witness ==
    /\ dry_run
    /\ operation = "commit"
    /\ GroupOk(group)
    /\ config_file = "sets.conf"
    /\ pc = "returned"
    /\ ret = TRUE

\* C28: compare is read-only.  In every run it opens no push session, takes
\* no lock and issues no load, commit check, commit or backup; the only
\* device contacts are the probes of the connectivity test and, once every
\* device has been probed, the configuration reads; neither the overlap
\* analysis nor the pending check is run.
C28_CompareReadOnly ==
    operation = "compare" =>
        /\ \A i \in Tasks : calls[i] = <<>> /\ ~locked[i] /\ ppc[i] = "idle"
        /\ \A c \in contacts : c[2] \in {"probe", "compare_read"}
        /\ SomeContacted("compare_read") => AllContacted("probe")
        /\ pc \notin {"validate_config", "overlap", "evaluate", "pending", "execute"}
        /\ config_status = EmptyDict
        /\ pending_devices = <<>>
        /\ results = EmptyDict
        /\ config_content = <<>>

\* C28 witness: a comparison asked for with --backup has read both
\* configurations and returned true.
C28_Witness ==
    /\ operation = "compare"
    /\ backup
    /\ pc = "returned"
    /\ ret = TRUE
    /\ devices = <<"d1", "d2">>
    /\ AllContacted("compare_read")

\* No line of the text begins with `set ` or `delete `.
NoSetOrDelete(content) ==
    \A line \in Range(SplitOn(content, "\n")) :
        /\ ~StartsWith(Lower(Strip(line)), W_set \o SP)
        /\ ~StartsWith(Lower(Strip(line)), W_delete \o SP)

\* The accepted documents without a set or delete line.
NoSetDeleteFiles ==
    {f \in ConfigFiles \ RejectedFiles : NoSetOrDelete(CleanedFile[f])}

C30_OrderIndependent ==
    dpc = "done" =>
        \A o1 \in Orders(Range(list1)), o2 \in Orders(Range(list2)) :
            LET r == find_similar_lines_advanced(ratio_impl, o1, o2)
            IN  /\ Range(r[1]) = Pairs
                /\ r[2] = truly_unique[1]
                /\ r[3] = truly_unique[2]

====
